---------------------------- MODULE Spec2Model ----------------------------
(***************************************************************************)
(* A model of the aws_py_data_eng jobs: the CSV to Parquet converter       *)
(* (csv_to_parquet.py), its Lambda and Glue invocation adapters, and the   *)
(* satellite brightness batch job.                                         *)
(*                                                                         *)
(* A Python str is a sequence of characters, each character a one-letter   *)
(* TLA+ string.  Two non-ASCII characters are written by their code point: *)
(* "U0130" is LATIN CAPITAL LETTER I WITH DOT ABOVE and "U0307" is         *)
(* COMBINING DOT ABOVE.                                                    *)
(***************************************************************************)
EXTENDS Integers, Sequences, FiniteSets, TLC

VARIABLES
    header, once, twice, npc,                  \* clean_column_name applied to one header
    s3, writes, procs, inv, pc, df, err, ret,  \* convert_csv_to_parquet invocations
    mode, event, args, idx, results, resp, calls, apc, log, escaped, \* lambda_handler / glue main
    image_paths, bi, all_pixel_values, bpc, result     \* calculate_citywide_brightness

nameVars    == <<header, once, twice, npc>>
convVars    == <<s3, writes, procs, inv, pc, df, err, ret>>
adapterVars == <<mode, event, args, idx, results, resp, calls, apc, log, escaped>>
brightVars  == <<image_paths, bi, all_pixel_values, bpc, result>>
vars        == <<nameVars, convVars, adapterVars, brightVars>>

---------------------------------------------------------------------------
(* Bounds of the model.                                                    *)
MaxHeaderLen == 4      \* characters in a raw header explored exhaustively
MaxPieces    == 5      \* path pieces a source key is built from
MaxCols      == 2      \* columns of a source table
NumInvocations == 2    \* concurrent invocations on one (bucket, key)
MaxRecords   == 3      \* records in a Lambda S3 event
MaxImages    == 3      \* image paths given to the brightness job

---------------------------------------------------------------------------
(* Sequence helpers.                                                       *)
RECURSIVE Flatten(_)
Flatten(ss) == IF ss = <<>> THEN <<>> ELSE Head(ss) \o Flatten(Tail(ss))

SeqsUpTo(S, n) == UNION { [1..k -> S] : k \in 0..n }

Last(s) == s[Len(s)]

IsPrefixAt(pat, s, i) ==
    /\ i + Len(pat) - 1 <= Len(s)
    /\ \A j \in 1..Len(pat) : s[i + j - 1] = pat[j]

---------------------------------------------------------------------------
(* Character classes of Python's re module and str methods.                *)
LowerSeq == <<"a","b","c","d","e","f","g","h","i","j","k","l","m",
              "n","o","p","q","r","s","t","u","v","w","x","y","z">>
UpperSeq == <<"A","B","C","D","E","F","G","H","I","J","K","L","M",
              "N","O","P","Q","R","S","T","U","V","W","X","Y","Z">>
DigitSeq == <<"0","1","2","3","4","5","6","7","8","9">>

Range(s) == { s[i] : i \in DOMAIN s }

\* str.isspace / regex \s
IsSpace(c) == c \in {" ", "\t"}

\* regex \w: str.isalnum or the underscore.  U+0130 is a letter, U+0307 a
\* combining mark (category Mn), which is not alphanumeric.
IsAlnum(c) == c \in Range(LowerSeq) \cup Range(UpperSeq) \cup Range(DigitSeq) \cup {"U0130"}
IsWord(c)  == IsAlnum(c) \/ c = "_"

\* str.lower of one character: a sequence, because U+0130 lowers to two
\* code points, "i" followed by U+0307.
LowerChar(c) ==
    IF c \in Range(UpperSeq)
      THEN << LowerSeq[CHOOSE i \in DOMAIN UpperSeq : UpperSeq[i] = c] >>
      ELSE IF c = "U0130" THEN <<"i", "U0307">> ELSE <<c>>

lower(s) == Flatten([i \in DOMAIN s |-> LowerChar(s[i])])

\* re.sub(r'[^\w\s]', '', s)
RemoveSpecial(s) == SelectSeq(s, LAMBDA c : IsWord(c) \/ IsSpace(c))

\* str.strip()
RECURSIVE lstrip(_)
lstrip(s) == IF s # <<>> /\ IsSpace(Head(s)) THEN lstrip(Tail(s)) ELSE s
RECURSIVE rstrip(_)
rstrip(s) == IF s # <<>> /\ IsSpace(Last(s)) THEN rstrip(SubSeq(s, 1, Len(s) - 1)) ELSE s
strip(s)  == rstrip(lstrip(s))

\* re.sub(r'\s+', '_', s): every maximal run of whitespace becomes one "_"
RECURSIVE SpaceRunsToUnderscore(_)
SpaceRunsToUnderscore(s) ==
    IF s = <<>> THEN <<>>
    ELSE IF IsSpace(Head(s)) THEN <<"_">> \o SpaceRunsToUnderscore(lstrip(s))
    ELSE <<Head(s)>> \o SpaceRunsToUnderscore(Tail(s))

clean_column_name(column_name) ==
    LET cleaned == RemoveSpecial(column_name)
    IN  lower(SpaceRunsToUnderscore(strip(cleaned)))

---------------------------------------------------------------------------
(* Name normalisation explored on its own: a raw header is typed in        *)
(* character by character, then normalised once and once more.             *)
HeaderAlphabet == {"a", "A", "7", "_", " ", "!", "U0130"}

NameInit ==
    /\ header = <<>>
    /\ once = <<>>
    /\ twice = <<>>
    /\ npc = "input"

AppendChar(c) ==
    /\ npc = "input"
    /\ Len(header) < MaxHeaderLen
    /\ header' = Append(header, c)
    /\ UNCHANGED <<once, twice, npc, convVars, adapterVars, brightVars>>

Normalize ==
    /\ npc = "input"
    /\ once' = clean_column_name(header)
    /\ twice' = clean_column_name(clean_column_name(header))
    /\ npc' = "cleaned"
    /\ UNCHANGED <<header, convVars, adapterVars, brightVars>>

NameNext == (\E c \in HeaderAlphabet : AppendChar(c)) \/ Normalize

---------------------------------------------------------------------------
(* Tables.  A column is [name, dtype, cells]; a cell is [t, v] with t one  *)
(* of "text" (a CSV field as written), "int", "float", "str", "na".        *)
NaTexts   == {"", "N/A"}                  \* pandas' default missing markers
IntTexts  == {"1", "2", "50"}
FracTexts == {"50.5"}

\* the float a numeric field parses to, by its repr
FloatOf == [x \in IntTexts \cup FracTexts |->
              CASE x = "1" -> "1.0" [] x = "2" -> "2.0" [] x = "50" -> "50.0"
                [] OTHER -> x]
IntegralFloats == { FloatOf[x] : x \in IntTexts }
IntOf(f) == CHOOSE x \in IntTexts : FloatOf[x] = f

Cell(t, v) == [t |-> t, v |-> v]
NA == Cell("na", "")

ColNames(d) == [i \in DOMAIN d |-> d[i].name]

\* read_csv's type inference for one column of fields
InferColumn(c) ==
    LET texts == { c.cells[i].v : i \in DOMAIN c.cells }
    IN  IF texts \subseteq IntTexts /\ texts # {}
          THEN [name |-> c.name, dtype |-> "int64",
                cells |-> [i \in DOMAIN c.cells |-> Cell("int", c.cells[i].v)]]
        ELSE IF texts \subseteq IntTexts \cup FracTexts \cup NaTexts
          THEN [name |-> c.name, dtype |-> "float64",
                cells |-> [i \in DOMAIN c.cells |->
                             IF c.cells[i].v \in NaTexts THEN NA
                             ELSE Cell("float", FloatOf[c.cells[i].v])]]
        ELSE [name |-> c.name, dtype |-> "object",
              cells |-> [i \in DOMAIN c.cells |->
                           IF c.cells[i].v \in NaTexts THEN NA
                           ELSE Cell("str", c.cells[i].v)]]

\* what reading Parquet bytes as delimited text gives when it parses at all
GarbageFrame == << [name |-> <<"P","A","R","1">>, dtype |-> "object", cells |-> <<>>] >>

\* wr.s3.read_csv on an object that parses
read_csv(obj) ==
    IF obj.fmt = "csv" THEN [i \in DOMAIN obj.cols |-> InferColumn(obj.cols[i])]
    ELSE GarbageFrame

\* df.columns = [clean_column_name(col) for col in df.columns]
CleanColumns(d) ==
    [i \in DOMAIN d |-> [d[i] EXCEPT !.name = clean_column_name(d[i].name)]]

type_mapping == <<
      [col |-> <<"i","m","a","g","e","_","i","n","d","e","x">>, dtype |-> "string"],
      [col |-> <<"f","i","n","d","i","n","g","_","l","a","b","e","l","s">>, dtype |-> "string"],
      [col |-> <<"f","o","l","l","o","w","_","u","p">>, dtype |-> "int64"],
      [col |-> <<"p","a","t","i","e","n","t","_","i","d">>, dtype |-> "int64"],
      [col |-> <<"p","a","t","i","e","n","t","_","a","g","e">>, dtype |-> "int64"],
      [col |-> <<"p","a","t","i","e","n","t","_","g","e","n","d","e","r">>, dtype |-> "category"],
      [col |-> <<"v","i","e","w","_","p","o","s","i","t","i","o","n">>, dtype |-> "category"],
      [col |-> <<"o","r","i","g","i","n","a","l","i","m","a","g","e","w","i","d","t","h">>, dtype |-> "int64"],
      [col |-> <<"o","r","i","g","i","n","a","l","i","m","a","g","e","h","e","i","g","h","t">>, dtype |-> "int64"],
      [col |-> <<"o","r","i","g","i","n","a","l","i","m","a","g","e","p","i","x","e","l","s","p","a","c","i","n","g","x">>, dtype |-> "float64"],
      [col |-> <<"o","r","i","g","i","n","a","l","i","m","a","g","e","p","i","x","e","l","s","p","a","c","i","n","g","y">>, dtype |-> "float64"] >>

DeclaredNames == { type_mapping[i].col : i \in DOMAIN type_mapping }
DeclaredAs(t) == { type_mapping[i].col : i \in { j \in DOMAIN type_mapping : type_mapping[j].dtype = t } }

\* pd.to_numeric(series, errors='coerce')
to_numeric(c) ==
    LET num(x) == IF x.t = "str"
                    THEN IF x.v \in IntTexts THEN Cell("int", x.v)
                         ELSE IF x.v \in FracTexts THEN Cell("float", x.v)
                         ELSE NA
                    ELSE x
        parsed == [i \in DOMAIN c.cells |-> num(c.cells[i])]
        allInt == \A i \in DOMAIN parsed : parsed[i].t = "int"
    IN  IF allInt /\ parsed # <<>>
          THEN [name |-> c.name, dtype |-> "int64", cells |-> parsed]
          ELSE [name |-> c.name, dtype |-> "float64",
                cells |-> [i \in DOMAIN parsed |->
                             IF parsed[i].t = "int"
                               THEN Cell("float", FloatOf[parsed[i].v])
                               ELSE parsed[i]]]

\* series.astype('Int64') raises on a float that is not a whole number
CastIsSafe(c) ==
    \A i \in DOMAIN c.cells : c.cells[i].t = "float" => c.cells[i].v \in IntegralFloats

astype_Int64(c) ==
    [name |-> c.name, dtype |-> "Int64",
     cells |-> [i \in DOMAIN c.cells |->
                  IF c.cells[i].t = "float" THEN Cell("int", IntOf(c.cells[i].v))
                  ELSE c.cells[i]]]

astype_string(c) ==
    [name |-> c.name, dtype |-> "string",
     cells |-> [i \in DOMAIN c.cells |->
                  IF c.cells[i].t = "na" THEN NA ELSE Cell("str", c.cells[i].v)]]

astype_category(c) == [c EXCEPT !.dtype = "category"]

\* one branch of the if/elif chain, on one column.  [col, err]
CoerceColumn(c, dtype) ==
    CASE dtype = "category" -> [col |-> astype_category(c), err |-> "none"]
      [] dtype = "int64" ->
           IF CastIsSafe(to_numeric(c))
             THEN [col |-> astype_Int64(to_numeric(c)), err |-> "none"]
             ELSE [col |-> c, err |-> "TypeError: cannot safely cast"]
      [] dtype = "float64" -> [col |-> to_numeric(c), err |-> "none"]
      [] dtype = "string" -> [col |-> astype_string(c), err |-> "none"]

\* the loop body without its "if col in df.columns" guard: assigning to an
\* absent name adds a column
ApplyOneUnguarded(d, m, frameAssignFails) ==
    LET at == { i \in DOMAIN d : d[i].name = m.col }
    IN  IF at = {}
          THEN [df |-> Append(d, [name |-> m.col, dtype |-> m.dtype, cells |-> <<>>]),
                err |-> "none"]
        ELSE IF Cardinality(at) > 1 THEN [df |-> d, err |-> "TypeError: arg must be a Series"]
        ELSE LET i == CHOOSE i \in at : TRUE
                 r == CoerceColumn(d[i], m.dtype)
             IN  IF r.err = "none" THEN [df |-> [d EXCEPT ![i] = r.col], err |-> "none"]
                 ELSE [df |-> d, err |-> r.err]

\* one iteration of the loop over type_mapping.  With the name on several
\* columns df[col] is a frame: to_numeric rejects it, and assigning a frame
\* back either sets every such column or fails (frameAssignFails).
ApplyOne(d, m, frameAssignFails) ==
    LET at == { i \in DOMAIN d : d[i].name = m.col }
    IN  IF at = {} THEN [df |-> d, err |-> "none"]
        ELSE IF Cardinality(at) > 1
          THEN IF m.dtype \in {"int64", "float64"}
                 THEN [df |-> d, err |-> "TypeError: arg must be a Series"]
               ELSE IF frameAssignFails
                 THEN [df |-> d, err |-> "ValueError: frame assignment"]
               ELSE [df |-> [i \in DOMAIN d |->
                               IF i \in at THEN CoerceColumn(d[i], m.dtype).col ELSE d[i]],
                     err |-> "none"]
        ELSE LET i == CHOOSE i \in at : TRUE
                 r == CoerceColumn(d[i], m.dtype)
             IN  IF r.err = "none" THEN [df |-> [d EXCEPT ![i] = r.col], err |-> "none"]
                 ELSE [df |-> d, err |-> r.err]

\* for col, dtype in type_mapping.items(): ...   from entry k on
RECURSIVE ApplyTypesFrom(_, _, _)
ApplyTypesFrom(d, k, frameAssignFails) ==
    IF k > Len(type_mapping) THEN [df |-> d, err |-> "none"]
    ELSE LET r == ApplyOne(d, type_mapping[k], frameAssignFails)
         IN  IF r.err # "none" THEN r
             ELSE ApplyTypesFrom(r.df, k + 1, frameAssignFails)

ApplyTypes(d, frameAssignFails) == ApplyTypesFrom(d, 1, frameAssignFails)

\* str.replace(old, new): every non-overlapping occurrence, left to right
RECURSIVE replace(_, _, _)
replace(s, old, new) ==
    IF s = <<>> THEN <<>>
    ELSE IF IsPrefixAt(old, s, 1)
      THEN new \o replace(SubSeq(s, Len(old) + 1, Len(s)), old, new)
    ELSE <<Head(s)>> \o replace(Tail(s), old, new)

DotCsv     == <<".","c","s","v">>
DotParquet == <<".","p","a","r","q","u","e","t">>

\* the key with the extension dropped and .parquet appended
ParquetKeyAppended(csv_key) == replace(csv_key, DotCsv, <<>>) \o DotParquet

\* parquet_key = csv_key.replace('.csv', '.parquet')
ParquetKey(csv_key) == replace(csv_key, DotCsv, DotParquet)

\* f"s3://{bucket}/{key}"
S3Path(bucket, k) == <<bucket, k>>

---------------------------------------------------------------------------
(* convert_csv_to_parquet(bucket, csv_key), one invocation p.              *)
(*   s3      the object store: S3 path -> object [fmt, cols]               *)
(*   writes  the PUT requests the store has served, in order               *)
(*   inv[p]  the arguments [bucket, csv_key]                               *)
(*   pc[p]   "idle", "read", "loaded", "cleaned", "typed", "done",         *)
(*           "raised"                                                      *)
(*   df[p]   the invocation's DataFrame; err[p] the exception raised;      *)
(*   ret[p]  the value returned                                            *)
\* a conditional PUT, which keeps an object that is already there
PutIfAbsent(store, path, obj) == IF path \in DOMAIN store THEN store ELSE (path :> obj) @@ store

\* the store after a PUT of obj at path
Put(store, path, obj) == (path :> obj) @@ store

SrcPath(p) == S3Path(inv[p].bucket, inv[p].csv_key)
DstPath(p) == S3Path(inv[p].bucket, ParquetKey(inv[p].csv_key))

OtherVars == <<nameVars, adapterVars, brightVars>>

\* line 30, the read succeeds
ReadOk(p) ==
    /\ pc[p] = "read"
    /\ SrcPath(p) \in DOMAIN s3
    /\ s3[SrcPath(p)].fmt \in {"csv", "parquet"}
    /\ df' = [df EXCEPT ![p] = read_csv(s3[SrcPath(p)])]
    /\ pc' = [pc EXCEPT ![p] = "loaded"]
    /\ UNCHANGED <<s3, writes, procs, inv, err, ret, OtherVars>>

\* a failing read that first leaves an empty output object behind
ReadFailLeavesMarker(p) ==
    /\ pc[p] = "read"
    /\ \/ SrcPath(p) \notin DOMAIN s3
       \/ /\ SrcPath(p) \in DOMAIN s3
          /\ s3[SrcPath(p)].fmt \in {"malformed", "parquet"}
    /\ LET obj == [fmt |-> "parquet", cols |-> <<>>]
       IN  /\ s3' = Put(s3, DstPath(p), obj)
           /\ writes' = Append(writes, [p |-> p, path |-> DstPath(p), obj |-> obj])
    /\ err' = [err EXCEPT ![p] = "ReadError"]
    /\ pc' = [pc EXCEPT ![p] = "raised"]
    /\ UNCHANGED <<procs, inv, df, ret, OtherVars>>

\* line 30, the read raises: no such object, or bytes that do not parse
\* (an object that is not delimited text may do either)
ReadFail(p) ==
    /\ pc[p] = "read"
    /\ \/ SrcPath(p) \notin DOMAIN s3
       \/ /\ SrcPath(p) \in DOMAIN s3
          /\ s3[SrcPath(p)].fmt \in {"malformed", "parquet"}
    /\ err' = [err EXCEPT ![p] = "ReadError"]
    /\ pc' = [pc EXCEPT ![p] = "raised"]
    /\ UNCHANGED <<s3, writes, procs, inv, df, ret, OtherVars>>

\* line 33
RenameColumns(p) ==
    /\ pc[p] = "loaded"
    /\ df' = [df EXCEPT ![p] = CleanColumns(df[p])]
    /\ pc' = [pc EXCEPT ![p] = "cleaned"]
    /\ UNCHANGED <<s3, writes, procs, inv, err, ret, OtherVars>>

\* lines 51-60
CoerceTypes(p) ==
    /\ pc[p] = "cleaned"
    /\ \E frameAssignFails \in BOOLEAN :
         LET r == ApplyTypes(df[p], frameAssignFails)
         IN  /\ df' = [df EXCEPT ![p] = r.df]
             /\ err' = [err EXCEPT ![p] = r.err]
             /\ pc' = [pc EXCEPT ![p] = IF r.err = "none" THEN "typed" ELSE "raised"]
    /\ UNCHANGED <<s3, writes, procs, inv, ret, OtherVars>>

\* lines 63-74: one PUT of the whole frame, then the key is returned
WriteParquet(p) ==
    /\ pc[p] = "typed"
    /\ LET obj == [fmt |-> "parquet", cols |-> df[p]]
       IN  /\ s3' = Put(s3, DstPath(p), obj)
           /\ writes' = Append(writes, [p |-> p, path |-> DstPath(p), obj |-> obj])
    /\ ret' = [ret EXCEPT ![p] = ParquetKey(inv[p].csv_key)]
    /\ pc' = [pc EXCEPT ![p] = "done"]
    /\ UNCHANGED <<procs, inv, df, err, OtherVars>>

\* lines 67-72, the write raises (destination unreachable, not permitted,
\* or a frame the writer rejects)
WriteFail(p) ==
    /\ pc[p] = "typed"
    /\ err' = [err EXCEPT ![p] = "WriteError"]
    /\ pc' = [pc EXCEPT ![p] = "raised"]
    /\ UNCHANGED <<s3, writes, procs, inv, df, ret, OtherVars>>

ConvNext ==
    \/ \E p \in procs : ReadOk(p)
    \/ \E p \in procs : ReadFail(p)
    \/ \E p \in procs : RenameColumns(p)
    \/ \E p \in procs : CoerceTypes(p)
    \/ \E p \in procs : WriteParquet(p)
    \/ \E p \in procs : WriteFail(p)

---------------------------------------------------------------------------
(* Inputs.                                                                 *)
Bucket == "adc-mjl-landing-zone"

RawHeaders == {
    <<"P","a","t","i","e","n","t"," ","I","D">>,
    <<"P","a","t","i","e","n","t"," ","A","g","e">>,
    <<"p","a","t","i","e","n","t","_","a","g","e">>,
    <<"V","i","e","w"," ","P","o","s","i","t","i","o","n">>,
    <<"I","m","a","g","e"," ","I","n","d","e","x">>,
    <<"O","r","i","g","i","n","a","l","I","m","a","g","e","P","i","x","e","l","S","p","a","c","i","n","g","[","x">>,
    <<"N","o","t","e","s">> }

CellSeqs == { <<"1", "2">>, <<"50", "N/A">>, <<"50", "">>, <<"50", "50.5">>,
              <<"50", "abc">>, <<"PA", "AP">> }

RawColumn(h, cs) ==
    [name |-> h, dtype |-> "text", cells |-> [i \in DOMAIN cs |-> Cell("text", cs[i])]]

RawColumns == { RawColumn(h, cs) : h \in RawHeaders, cs \in CellSeqs }

\* the tables a source file may hold: at least one column, headers distinct
Tables == { t \in SeqsUpTo(RawColumns, MaxCols) :
              /\ t # <<>>
              /\ \A i, j \in DOMAIN t : i # j => t[i].name # t[j].name }

CsvObject(t) == [fmt |-> "csv", cols |-> t]
MalformedObject == [fmt |-> "malformed", cols |-> <<>>]
EmptyStore == <<>>

\* header Patient ID,Patient Age ; rows (1,50), (2,N/A)
ScenarioTable == << RawColumn(<<"P","a","t","i","e","n","t"," ","I","D">>, <<"1", "2">>),
                    RawColumn(<<"P","a","t","i","e","n","t"," ","A","g","e">>, <<"50", "N/A">>) >>

DataFileCsv == <<"d","a","t","a","/","f","i","l","e",".","c","s","v">>

KeyPieces == { <<"d","a","t","a">>, <<"f","i","l","e">>, <<"/">>, DotCsv }

Keys == { Flatten(ps) : ps \in SeqsUpTo(KeyPieces, MaxPieces) } \ {<<>>}

NameIdle ==
    /\ header = <<>>
    /\ once = <<>>
    /\ twice = <<>>
    /\ npc = "off"

AdapterIdle ==
    /\ mode = "none"
    /\ event = <<>>
    /\ args = [bucket_name |-> "", csv_key |-> <<>>]
    /\ idx = 1
    /\ results = <<>>
    /\ resp = [statusCode |-> 0, body |-> [pending |-> TRUE]]
    /\ calls = <<>>
    /\ apc = "off"
    /\ log = <<>>
    /\ escaped = "none"

BrightIdle ==
    /\ image_paths = <<>>
    /\ bi = 1
    /\ all_pixel_values = <<>>
    /\ bpc = "off"
    /\ result = [pending |-> TRUE]

ConvIdle ==
    /\ s3 = EmptyStore
    /\ writes = <<>>
    /\ procs = {}
    /\ inv = <<>>
    /\ pc = <<>>
    /\ df = <<>>
    /\ err = <<>>
    /\ ret = <<>>

\* the invocations ps, all called with (Bucket, k), about to read
Invoked(ps, k) ==
    /\ procs = ps
    /\ inv = [p \in ps |-> [bucket |-> Bucket, csv_key |-> k]]
    /\ pc = [p \in ps |-> "read"]
    /\ df = [p \in ps |-> <<>>]
    /\ err = [p \in ps |-> "none"]
    /\ ret = [p \in ps |-> <<>>]
    /\ writes = <<>>

\* one invocation on data/file.csv, over every source table
Init ==
    /\ Invoked({1}, DataFileCsv)
    /\ s3 \in {EmptyStore}
          \cup { Put(EmptyStore, S3Path(Bucket, DataFileCsv), CsvObject(t)) : t \in Tables }
    /\ NameIdle /\ AdapterIdle /\ BrightIdle

Next == ConvNext

Spec == Init /\ [][Next]_vars

\* one invocation, over every source key
KeyInit ==
    /\ \E k \in Keys :
         /\ Invoked({1}, k)
         /\ s3 \in { EmptyStore,
                     Put(EmptyStore, S3Path(Bucket, k), MalformedObject),
                     Put(EmptyStore, S3Path(Bucket, k), CsvObject(ScenarioTable)) }
    /\ NameIdle /\ AdapterIdle /\ BrightIdle

SpecKey == KeyInit /\ [][ConvNext]_vars

NameSpecInit == NameInit /\ ConvIdle /\ AdapterIdle /\ BrightIdle

SpecName == NameSpecInit /\ [][NameNext]_vars

---------------------------------------------------------------------------
(* Concurrent invocations on one (bucket, key) (SpecConc).                 *)
DataKey == <<"d","a","t","a">>

ConcInit ==
    /\ \E k \in {DataFileCsv, DataKey} :
         /\ Invoked(1..NumInvocations, k)
         /\ s3 \in { Put(EmptyStore, S3Path(Bucket, k), CsvObject(t)) :
                       t \in {ScenarioTable, <<RawColumn(<<"N","o","t","e","s">>, <<"50", "abc">>)>>} }
    /\ NameIdle /\ AdapterIdle /\ BrightIdle

SpecConc == ConcInit /\ [][ConvNext]_vars

---------------------------------------------------------------------------
(* The invocation adapters: lambda_handler(event, context) and the Glue    *)
(* job's main().  The adapter runs convert_csv_to_parquet as invocation 1. *)
(*   event    the S3 event's Records, each [bucket, key] ("" when absent)  *)
(*   args     the Glue job arguments                                       *)
(*   idx      the record the Lambda loop is at; results its list           *)
(*   resp     the dictionary lambda_handler returns                        *)
(*   calls    the arguments of every convert_csv_to_parquet call, in order *)
(*   log      what was printed; escaped  the exception leaving main()      *)
Adapter == 1

\* urllib.parse.unquote_plus: "+" is a space, then %XX escapes are decoded
\* (the escapes of the characters the event keys here can hold)
HexEscapes == { <<"%","2","B">>, <<"%","2","0">>, <<"%","2","F">> }
Unescaped(e) == CASE e = <<"%","2","B">> -> "+" [] e = <<"%","2","0">> -> " " [] OTHER -> "/"

RECURSIVE unquote(_)
unquote(s) ==
    IF s = <<>> THEN <<>>
    ELSE IF Len(s) >= 3 /\ SubSeq(s, 1, 3) \in HexEscapes
      THEN <<Unescaped(SubSeq(s, 1, 3))>> \o unquote(SubSeq(s, 4, Len(s)))
    ELSE <<Head(s)>> \o unquote(Tail(s))

unquote_plus(s) == unquote([i \in DOMAIN s |-> IF s[i] = "+" THEN " " ELSE s[i]])

AdapterRest == <<nameVars, brightVars, procs>>

\* the call on line 39 / line 23: a fresh invocation with these arguments
CallConvert(bucket, csv_key) ==
    /\ inv' = [inv EXCEPT ![Adapter] = [bucket |-> bucket, csv_key |-> csv_key]]
    /\ pc' = [pc EXCEPT ![Adapter] = "read"]
    /\ df' = [df EXCEPT ![Adapter] = <<>>]
    /\ err' = [err EXCEPT ![Adapter] = "none"]
    /\ ret' = [ret EXCEPT ![Adapter] = <<>>]
    /\ calls' = Append(calls, [bucket |-> bucket, csv_key |-> csv_key])

\* lines 24-39: the next record is valid and its file is converted
LambdaCall ==
    /\ mode = "lambda" /\ apc = "loop"
    /\ idx <= Len(event)
    /\ event[idx].bucket # "" /\ event[idx].key # <<>>
    /\ CallConvert(event[idx].bucket, unquote_plus(event[idx].key))
    /\ log' = Append(log, "Processing CSV file")
    /\ apc' = "calling"
    /\ UNCHANGED <<s3, writes, mode, event, args, idx, results, resp, escaped, AdapterRest>>

\* the failure response of lines 58-68
FailureResponse(e) == [statusCode |-> 500, body |-> [error |-> e, event |-> event]]

\* lines 30-31, caught on line 58
LambdaReject ==
    /\ mode = "lambda" /\ apc = "loop"
    /\ idx <= Len(event)
    /\ event[idx].bucket = "" \/ event[idx].key = <<>>
    /\ resp' = FailureResponse("ValueError: Missing bucket name or object key")
    /\ log' = Append(log, "Error")
    /\ apc' = "returned"
    /\ UNCHANGED <<convVars, mode, event, args, idx, results, calls, escaped, nameVars, brightVars>>

\* lines 41-48
LambdaAppend ==
    /\ mode = "lambda" /\ apc = "calling"
    /\ pc[Adapter] = "done"
    /\ results' = Append(results, [source_file |-> inv[Adapter].csv_key,
                                   output_file |-> ret[Adapter],
                                   bucket |-> inv[Adapter].bucket,
                                   status |-> "success"])
    /\ log' = Append(log, "Successfully converted")
    /\ idx' = idx + 1
    /\ apc' = "loop"
    /\ pc' = [pc EXCEPT ![Adapter] = "idle"]
    /\ UNCHANGED <<s3, writes, inv, df, err, ret, mode, event, args, resp, calls, escaped, AdapterRest>>

\* a failure response that also reports the files converted so far
LambdaExceptPartial ==
    /\ mode = "lambda" /\ apc = "calling"
    /\ pc[Adapter] = "raised"
    /\ resp' = [statusCode |-> 500,
                body |-> [error |-> err[Adapter], event |-> event, results |-> results]]
    /\ log' = Append(log, "Error")
    /\ apc' = "returned"
    /\ UNCHANGED <<convVars, mode, event, args, idx, results, calls, escaped, nameVars, brightVars>>

\* lines 58-68: the exception of the conversion is caught
LambdaExcept ==
    /\ mode = "lambda" /\ apc = "calling"
    /\ pc[Adapter] = "raised"
    /\ resp' = FailureResponse(err[Adapter])
    /\ log' = Append(log, "Error")
    /\ apc' = "returned"
    /\ UNCHANGED <<convVars, mode, event, args, idx, results, calls, escaped, nameVars, brightVars>>

\* lines 50-56
LambdaReturn ==
    /\ mode = "lambda" /\ apc = "loop"
    /\ idx > Len(event)
    /\ resp' = [statusCode |-> 200,
                body |-> [message |-> Len(results), results |-> results]]
    /\ apc' = "returned"
    /\ UNCHANGED <<convVars, mode, event, args, idx, results, calls, log, escaped, nameVars, brightVars>>

\* glue_wrapper.py lines 14-23
GlueCall ==
    /\ mode = "glue" /\ apc = "loop"
    /\ CallConvert(args.bucket_name, args.csv_key)
    /\ log' = Append(log, "Starting CSV to Parquet conversion job")
    /\ apc' = "calling"
    /\ UNCHANGED <<s3, writes, mode, event, args, idx, results, resp, escaped, AdapterRest>>

\* glue_wrapper.py line 24
GlueDone ==
    /\ mode = "glue" /\ apc = "calling"
    /\ pc[Adapter] = "done"
    /\ log' = Append(log, "Job completed successfully")
    /\ apc' = "completed"
    /\ UNCHANGED <<convVars, mode, event, args, idx, results, resp, calls, escaped, nameVars, brightVars>>

\* glue_wrapper.py lines 25-27: print, then raise
GlueExcept ==
    /\ mode = "glue" /\ apc = "calling"
    /\ pc[Adapter] = "raised"
    /\ log' = Append(log, "Job failed with error")
    /\ escaped' = err[Adapter]
    /\ apc' = "failed"
    /\ UNCHANGED <<convVars, mode, event, args, idx, results, resp, calls, nameVars, brightVars>>

AdapterNext ==
    \/ LambdaCall \/ LambdaReject \/ LambdaAppend \/ LambdaExcept \/ LambdaReturn
    \/ GlueCall \/ GlueDone \/ GlueExcept
    \/ ConvNext

LambdaTestCsv == <<"l","a","m","b","d","a","/","t","e","s","t",".","c","s","v">>

LambdaRecords == {
    [bucket |-> Bucket, key |-> LambdaTestCsv],
    [bucket |-> Bucket, key |-> <<"a","+","b",".","c","s","v">>],
    [bucket |-> Bucket, key |-> <<"m","i","s","s","i","n","g",".","c","s","v">>],
    [bucket |-> "",     key |-> LambdaTestCsv] }

GlueArgs == {
    [bucket_name |-> Bucket, csv_key |-> DataFileCsv],
    [bucket_name |-> Bucket, csv_key |-> <<"m","i","s","s","i","n","g",".","c","s","v">>] }

AdapterStore ==
    Put(Put(Put(EmptyStore,
        S3Path(Bucket, LambdaTestCsv), CsvObject(ScenarioTable)),
        S3Path(Bucket, <<"a"," ","b",".","c","s","v">>), CsvObject(ScenarioTable)),
        S3Path(Bucket, DataFileCsv), CsvObject(ScenarioTable))

AdapterInit ==
    /\ mode \in {"lambda", "glue"}
    /\ IF mode = "lambda"
         THEN /\ event \in SeqsUpTo(LambdaRecords, MaxRecords)
              /\ args = [bucket_name |-> "", csv_key |-> <<>>]
         ELSE /\ event = <<>>
              /\ args \in GlueArgs
    /\ idx = 1
    /\ results = <<>>
    /\ resp = [statusCode |-> 0, body |-> [pending |-> TRUE]]
    /\ calls = <<>>
    /\ apc = "loop"
    /\ log = <<>>
    /\ escaped = "none"
    /\ s3 = AdapterStore
    /\ writes = <<>>
    /\ procs = {Adapter}
    /\ inv = [p \in {Adapter} |-> [bucket |-> "", csv_key |-> <<>>]]
    /\ pc = [p \in {Adapter} |-> "idle"]
    /\ df = [p \in {Adapter} |-> <<>>]
    /\ err = [p \in {Adapter} |-> "none"]
    /\ ret = [p \in {Adapter} |-> <<>>]
    /\ NameIdle /\ BrightIdle

SpecAdapters == AdapterInit /\ [][AdapterNext]_vars

---------------------------------------------------------------------------
(* calculate_citywide_brightness(image_paths).  A path stands for its      *)
(* image: whether rasterio can open it and, per pixel, its band values.    *)
(* A real number is a fraction [num, den].                                 *)
(*   bi                the loop's position in image_paths                  *)
(*   all_pixel_values  the flattened grayscale arrays loaded so far        *)
(*   bpc               "loop", "done" or "raised" (ValueError)             *)
(*   result            the dictionary returned                             *)
RECURSIVE SumSeq(_)
SumSeq(xs) == IF xs = <<>> THEN 0 ELSE Head(xs) + SumSeq(Tail(xs))

\* np.mean(image_data, axis=0).flatten(): the mean over the bands, per pixel
Grayscale(data) == [k \in DOMAIN data |-> [num |-> SumSeq(data[k]), den |-> Len(data[k])]]

RECURSIVE FracSum(_)
FracSum(fs) ==
    IF fs = <<>> THEN [num |-> 0, den |-> 1]
    ELSE LET r == FracSum(Tail(fs))
         IN  [num |-> Head(fs).num * r.den + r.num * Head(fs).den, den |-> Head(fs).den * r.den]

\* np.mean of a flat array
Mean(fs) == [num |-> FracSum(fs).num, den |-> FracSum(fs).den * Len(fs)]

BytesPerValue == 8
BytesPerGiB == 1073741824

\* lines 84-106.  The contrast and the percentiles are functions of the same
\* city_pixels array and are not computed here.
Statistics(paths, arrays) ==
    LET city_pixels == Flatten(arrays)
    IN  [total_images_processed |-> Len(paths),
         total_pixels_analyzed |-> Len(city_pixels),
         city_average_brightness |-> Mean(city_pixels),
         memory_used_gb |-> [num |-> Len(city_pixels) * BytesPerValue, den |-> BytesPerGiB]]

BrightRest == <<nameVars, convVars, adapterVars>>

\* lines 69-74
LoadImage ==
    /\ bpc = "loop"
    /\ bi <= Len(image_paths)
    /\ image_paths[bi].ok
    /\ all_pixel_values' = Append(all_pixel_values, Grayscale(image_paths[bi].data))
    /\ bi' = bi + 1
    /\ UNCHANGED <<image_paths, bpc, result, BrightRest>>

\* a load failure that ends the job
SkipImageAborts ==
    /\ bpc = "loop"
    /\ bi <= Len(image_paths)
    /\ ~image_paths[bi].ok
    /\ bpc' = "raised"
    /\ UNCHANGED <<image_paths, bi, all_pixel_values, result, BrightRest>>

\* lines 75-77: the image does not load; warn and continue
SkipImage ==
    /\ bpc = "loop"
    /\ bi <= Len(image_paths)
    /\ ~image_paths[bi].ok
    /\ bi' = bi + 1
    /\ UNCHANGED <<image_paths, all_pixel_values, bpc, result, BrightRest>>

\* lines 79-80
RaiseNoImages ==
    /\ bpc = "loop"
    /\ bi > Len(image_paths)
    /\ all_pixel_values = <<>>
    /\ bpc' = "raised"
    /\ UNCHANGED <<image_paths, bi, all_pixel_values, result, BrightRest>>

\* lines 82-109
ComputeStatistics ==
    /\ bpc = "loop"
    /\ bi > Len(image_paths)
    /\ all_pixel_values # <<>>
    /\ result' = Statistics(image_paths, all_pixel_values)
    /\ bpc' = "done"
    /\ UNCHANGED <<image_paths, bi, all_pixel_values, BrightRest>>

BrightNext == LoadImage \/ SkipImage \/ RaiseNoImages \/ ComputeStatistics

Images == {
    [ok |-> FALSE, data |-> <<>>],
    [ok |-> TRUE,  data |-> << <<0, 0, 0>> >>],
    [ok |-> TRUE,  data |-> << <<30, 60, 90>>, <<255, 255, 255>> >>],
    [ok |-> TRUE,  data |-> << <<10, 20, 40>> >>] }

BrightInit ==
    /\ image_paths \in SeqsUpTo(Images, MaxImages)
    /\ bi = 1
    /\ all_pixel_values = <<>>
    /\ bpc = "loop"
    /\ result = [pending |-> TRUE]
    /\ NameIdle /\ ConvIdle /\ AdapterIdle

SpecBright == BrightInit /\ [][BrightNext]_vars

---------------------------------------------------------------------------
(* Properties of clean_column_name (SpecName).                             *)

\* C4: normalising a header twice gives the same name as normalising it once.
C4_Idempotent == npc = "cleaned" => twice = once

\* lowercase letters, digits and underscores only, and no two underscores in a row
IsCanonical(s) ==
    /\ \A i \in DOMAIN s : s[i] \in Range(LowerSeq) \cup Range(DigitSeq) \cup {"_"}
    /\ \A i \in 1..(Len(s) - 1) : ~(s[i] = "_" /\ s[i + 1] = "_")

\* C5: the normalised name of every raw header is canonical: only lowercase
\* alphanumerics and underscores, words separated by exactly one underscore.
C5_Canonical == npc = "cleaned" => IsCanonical(once)

---------------------------------------------------------------------------
(* Properties of the derived key (SpecKey).                                *)
EndsWithCsv(k) == Len(k) >= Len(DotCsv) /\ IsPrefixAt(DotCsv, k, Len(k) - Len(DotCsv) + 1)
ContainsCsv(k) == \E i \in DOMAIN k : IsPrefixAt(DotCsv, k, i)

\* the key with only a trailing .csv extension exchanged
TrailingExtensionReplaced(k) ==
    IF EndsWithCsv(k) THEN SubSeq(k, 1, Len(k) - Len(DotCsv)) \o DotParquet ELSE k

\* C1: the key returned, and written to, is the source key with only its
\* trailing .csv extension replaced by .parquet; the rest of the key is kept.
C1_OnlyTrailingExtension ==
    \A p \in procs : pc[p] = "done" =>
        /\ ret[p] = TrailingExtensionReplaced(inv[p].csv_key)
        /\ Last(writes).path = S3Path(inv[p].bucket, TrailingExtensionReplaced(inv[p].csv_key))

\* C9: a key without ".csv" is returned unchanged and the Parquet output
\* replaces the source object; the output location differs from the source
\* location exactly when the key contains ".csv".
C9_SourceOverwritten ==
    \A p \in procs : pc[p] = "done" =>
        /\ ~ContainsCsv(inv[p].csv_key) =>
              /\ ret[p] = inv[p].csv_key
              /\ Last(writes).path = SrcPath(p)
              /\ s3[SrcPath(p)] = [fmt |-> "parquet", cols |-> df[p]]
        /\ (Last(writes).path # SrcPath(p)) <=> ContainsCsv(inv[p].csv_key)
        /\ Last(writes).path = S3Path(inv[p].bucket, ret[p])

C9_Witness ==
    \E p \in procs :
        /\ pc[p] = "done"
        /\ ~ContainsCsv(inv[p].csv_key)
        /\ s3[SrcPath(p)].fmt = "parquet"
        /\ ret[p] = inv[p].csv_key

\* whether the source of p is missing or does not parse
SourceUnreadable(p) ==
    \/ SrcPath(p) \notin DOMAIN s3
    \/ s3[SrcPath(p)].fmt = "malformed"

WritesOf(p) == { i \in DOMAIN writes : writes[i].p = p }

\* C3: with the source missing or not parseable the invocation fails with a
\* Read error and has written nothing; a write only follows a successful read.
C3_NoWriteBeforeRead ==
    \A p \in procs :
        /\ SourceUnreadable(p) =>
              /\ pc[p] \in {"read", "raised"}
              /\ pc[p] = "raised" => err[p] = "ReadError"
        /\ (pc[p] = "read" \/ err[p] = "ReadError") =>
              /\ WritesOf(p) = {}
              /\ \A path \in DOMAIN s3 : s3[path].fmt # "parquet"
        /\ WritesOf(p) # {} => pc[p] = "done" /\ err[p] = "none"

C3_Witness ==
    \E p \in procs :
        /\ SourceUnreadable(p)
        /\ pc[p] = "raised"
        /\ err[p] = "ReadError"
        /\ writes = <<>>

---------------------------------------------------------------------------
(* Properties of the type coercion (Spec).                                 *)

\* C2: in a declared-integer column every cell that is not an integer becomes
\* a missing value, and no such cell makes the conversion raise.
C2_IntegerCoercionNeverRaises ==
    \A p \in procs :
        /\ err[p] # "TypeError: cannot safely cast"
        /\ pc[p] \in {"typed", "done"} =>
              \A i \in DOMAIN df[p] :
                 df[p][i].name \in DeclaredAs("int64") =>
                    \A r \in DOMAIN df[p][i].cells :
                       s3[SrcPath(p)].cols[i].cells[r].v \notin IntTexts
                          => df[p][i].cells[r] = NA

\* what the coercion loop may change of a frame
FrameKept(before, after) ==
    /\ ColNames(after) = ColNames(before)
    /\ \A i \in DOMAIN before : before[i].name \notin DeclaredNames => after[i] = before[i]

\* C6: the coercion keeps the set and order of columns, adds no column for a
\* declared name that is absent, and leaves every undeclared column as read.
C6_CoercionFrame ==
    [][\A p \in procs : pc[p] = "cleaned" => FrameKept(df[p], df'[p])]_vars

C6_Witness ==
    \E p \in procs :
        /\ pc[p] = "typed"
        /\ \E i, j \in DOMAIN df[p] :
              /\ df[p][i].name \notin DeclaredNames
              /\ df[p][i].dtype = "object"
              /\ df[p][j].name \in DeclaredAs("int64")
              /\ df[p][j].dtype = "Int64"
              /\ NA \in Range(df[p][j].cells)

---------------------------------------------------------------------------
(* Properties of the adapters (SpecAdapters).                              *)

\* whether the conversion the adapter called has raised
ConversionRaised == apc \in {"calling", "returned", "failed"} /\ pc[Adapter] = "raised"

\* C7: when the conversion raises, the adapter neither retries nor goes on:
\* Glue logs and re-raises; Lambda returns statusCode 500, converts no record
\* after the failing one, and its response reports none of the records
\* converted before it.
C7_FailureStopsAdapter ==
    /\ \A i \in DOMAIN calls :
          mode = "lambda" =>
             calls[i] = [bucket |-> event[i].bucket, csv_key |-> unquote_plus(event[i].key)]
    /\ mode = "glue" => Len(calls) <= 1
    /\ \A i \in DOMAIN log :
          log[i] \in {"Error", "Job failed with error"} => i = Len(log)
    /\ ConversionRaised =>
          /\ Len(calls) = idx
          /\ Len(results) = idx - 1
          /\ apc # "completed"
    /\ (ConversionRaised /\ apc = "returned") =>
          /\ resp.statusCode = 500
          /\ DOMAIN resp.body = {"error", "event"}
          /\ resp.body.error = err[Adapter]
    /\ (ConversionRaised /\ apc = "failed") =>
          /\ escaped = err[Adapter]
          /\ Last(log) = "Job failed with error"
    /\ resp.statusCode = 200 => Len(results) = Len(event) /\ Len(calls) = Len(event)

C7_Witness ==
    /\ mode = "lambda"
    /\ apc = "returned"
    /\ pc[Adapter] = "raised"
    /\ resp.statusCode = 500
    /\ Len(results) = 1
    /\ Len(writes) = 1
    /\ Len(calls) = 2
    /\ Len(event) = 3

---------------------------------------------------------------------------
(* Properties of concurrent invocations (SpecConc).                        *)
AllFinished == \A p \in procs : pc[p] \in {"done", "raised"}

\* C8: invocations on one (bucket, key) all return the same derived key, and
\* when all have finished the object at the derived location is the whole
\* output of the invocation that wrote last.
C8_LastWriterWins ==
    /\ \A p, q \in procs : (pc[p] = "done" /\ pc[q] = "done") => ret[p] = ret[q]
    /\ \A p \in procs : pc[p] = "done" => WritesOf(p) # {}
    /\ (AllFinished /\ writes # <<>>) =>
          s3[DstPath(Last(writes).p)] = [fmt |-> "parquet", cols |-> df[Last(writes).p]]

C8_Witness ==
    /\ AllFinished
    /\ Len(writes) >= 2
    /\ writes[1].obj # Last(writes).obj
    /\ writes[1].path = Last(writes).path
    /\ s3[Last(writes).path] = Last(writes).obj

---------------------------------------------------------------------------
(* Properties of the brightness job (SpecBright).                          *)
Loadable == { i \in DOMAIN image_paths : image_paths[i].ok }

\* the grayscale pixels of the images that load, in path order
LoadedPixels ==
    Flatten([i \in DOMAIN image_paths |->
               IF image_paths[i].ok THEN Grayscale(image_paths[i].data) ELSE <<>>])

\* C10: an image that fails to load is skipped and the loop goes on; the job
\* raises ValueError exactly when no image loads; otherwise the statistics
\* are those of the loaded images' pixels and total_images_processed counts
\* every path given.
C10_SkipsUnloadable ==
    /\ bpc = "loop" =>
          Len(all_pixel_values) = Cardinality({ i \in Loadable : i < bi })
    /\ bpc = "raised" => Loadable = {}
    /\ bpc = "done" =>
          /\ Loadable # {}
          /\ result.total_images_processed = Len(image_paths)
          /\ result.total_pixels_analyzed = Len(LoadedPixels)
          /\ result.city_average_brightness = Mean(LoadedPixels)

C10_Witness ==
    /\ bpc = "done"
    /\ \E i, j \in DOMAIN image_paths : i < j /\ ~image_paths[i].ok /\ image_paths[j].ok
    /\ result.total_images_processed > Cardinality(Loadable)

=============================================================================
